---------------------------- MODULE Spec2Model ----------------------------
(***************************************************************************)
(* A model of src/app.py: the fuzzy question matcher, the deception        *)
(* scorer, rock-paper-scissors, the topic summarizer, the alarm threads    *)
(* and the five POST handlers.                                             *)
(*                                                                         *)
(* Python str values are TLA+ strings (Len, \o and SubSeq act on them).    *)
(* Python floats that are multiples of 0.5 are kept as integers counted in *)
(* half points (score 2 is 4, score -0.5 is -1); a quotient is kept as the *)
(* pair of its numerator and denominator and compared by cross             *)
(* multiplication, which is what the correctly rounded float division      *)
(* decides for operands this small.                                        *)
(***************************************************************************)
EXTENDS Integers, Sequences, FiniteSets, TLC

VARIABLES
    word,        \* find_best_match: user_question
    questions,   \* find_best_match: questions
    match,       \* find_best_match: the value returned
    text,        \* analyze_message: msg
    score,       \* analyze_message: the value returned (half points)
    messages,    \* lie_detector_analysis: messages
    summary,     \* lie_detector_analysis: the value returned
    request,     \* the HTTP request being answered
    response,    \* what the caller of the handler gets
    draws,       \* random.choice / random.randint calls made for the request
    alarms,      \* the module-level dict alarms
    threads,     \* the alarm_thread threads started, in start order
    fired        \* the threads that ran their write, in completion order

matchVars == <<word, questions, match>>
scoreVars == <<text, score>>
detectorVars == <<messages, summary>>
alarmVars == <<alarms, threads, fired>>
serverVars == <<request, response, draws, alarms, threads, fired>>
vars == <<word, questions, match, text, score, messages, summary,
          request, response, draws, alarms, threads, fired>>

-----------------------------------------------------------------------------
(* Bounds of the model.                                                    *)

MaxQuestions == 3    \* candidates handed to find_best_match
MaxPieces == 4       \* pieces a scored text is put together from
MaxMessages == 5     \* entries of a conversation
MaxThreads == 2      \* alarm threads started in one run

-----------------------------------------------------------------------------
(* The values the variables start from.                                    *)

\* {}
EmptyDict == [k \in {} |-> 0]

\* a key a JSON body does not have (JSON values are described further down)
JAbsent == [t |-> "absent", s |-> "", n |-> 0]

\* no response yet
NoResponse == [status |-> "none", t |-> "none", text |-> "", summary |-> EmptyDict]

\* a request: the endpoint, whether the body is a JSON object ("object") or
\* the JSON null ("null"), the body's fields, and for /search what the page
\* fetch will answer
NoFetch == [kind |-> "none", code |-> 0, paragraphs |-> <<>>]
NoItems == [t |-> "absent", items |-> <<>>]
NoRequest ==
    [ep |-> "none", body |-> "object", message |-> JAbsent, choice |-> JAbsent,
     messages |-> NoItems, topic |-> JAbsent, minutes |-> JAbsent, fetch |-> NoFetch]

-----------------------------------------------------------------------------
(* Python str operations.                                                  *)

Min(a, b) == IF a < b THEN a ELSE b

CharAt(s, i) == SubSeq(s, i, i)

\* needle in hay
Contains(needle, hay) ==
    \E i \in 0..(Len(hay) - Len(needle)) : SubSeq(hay, i + 1, i + Len(needle)) = needle

\* the lowercase of every character that has one, among those the model writes
LowerOf ==
    [A |-> "a", B |-> "b", C |-> "c", D |-> "d", E |-> "e", F |-> "f", G |-> "g",
     H |-> "h", I |-> "i", J |-> "j", K |-> "k", L |-> "l", M |-> "m", N |-> "n",
     O |-> "o", P |-> "p", Q |-> "q", R |-> "r", S |-> "s", T |-> "t", U |-> "u",
     V |-> "v", W |-> "w", X |-> "x", Y |-> "y", Z |-> "z"]

LowerChar(c) == IF c \in DOMAIN LowerOf THEN LowerOf[c] ELSE c

\* s.lower()
RECURSIVE Lower(_)
Lower(s) == IF s = "" THEN "" ELSE LowerChar(CharAt(s, 1)) \o Lower(SubSeq(s, 2, Len(s)))

\* The code points of the characters the model's texts are written in; str
\* comparison orders by them.
AsciiLow == " !"
AsciiMid == "#$%&'()*+,-./0123456789:;<=>?@ABCDEFGHIJKLMNOPQRSTUVWXYZ["
AsciiHigh == "abcdefghijklmnopqrstuvwxyz{|}~"

IndexIn(c, s) == CHOOSE i \in 1..Len(s) : CharAt(s, i) = c

CodePoint(c) ==
    IF Contains(c, AsciiLow) THEN 31 + IndexIn(c, AsciiLow)
    ELSE IF Contains(c, AsciiMid) THEN 34 + IndexIn(c, AsciiMid)
    ELSE 96 + IndexIn(c, AsciiHigh)

\* s < t on str
RECURSIVE StrLess(_, _)
StrLess(s, t) ==
    IF t = "" THEN FALSE
    ELSE IF s = "" THEN TRUE
    ELSE IF CharAt(s, 1) = CharAt(t, 1)
         THEN StrLess(SubSeq(s, 2, Len(s)), SubSeq(t, 2, Len(t)))
         ELSE CodePoint(CharAt(s, 1)) < CodePoint(CharAt(t, 1))

-----------------------------------------------------------------------------
(* difflib.SequenceMatcher as get_close_matches drives it: seq1 = a is the *)
(* candidate, seq2 = b is the word, no junk (both are far below the 200    *)
(* characters at which autojunk starts).  Positions are 0-based and        *)
(* ranges half open, as in the library.                                    *)

Slice(s, lo, hi) == SubSeq(s, lo + 1, hi)

\* find_longest_match(alo, ahi, blo, bhi): the longest block a[i:i+k] = b[j:j+k]
\* inside the ranges; of those the one starting earliest in a, and of those the
\* one starting earliest in b; (alo, blo, 0) when nothing matches.
FindLongestMatch(a, b, alo, ahi, blo, bhi) ==
    LET Blocks == {m \in (alo..ahi) \X (blo..bhi) \X (1..Min(ahi - alo, bhi - blo)) :
                      /\ m[1] + m[3] <= ahi
                      /\ m[2] + m[3] <= bhi
                      /\ Slice(a, m[1], m[1] + m[3]) = Slice(b, m[2], m[2] + m[3])}
        Better(m, n) == \/ m[3] > n[3]
                        \/ m[3] = n[3] /\ m[1] < n[1]
                        \/ m[3] = n[3] /\ m[1] = n[1] /\ m[2] < n[2]
    IN IF Blocks = {} THEN <<alo, blo, 0>>
       ELSE CHOOSE m \in Blocks : \A n \in Blocks \ {m} : Better(m, n)

\* get_matching_blocks: the sum of the sizes of the blocks found by splitting
\* around the longest match, left part and right part.
RECURSIVE MatchCount(_, _, _, _, _, _)
MatchCount(a, b, alo, ahi, blo, bhi) ==
    LET m == FindLongestMatch(a, b, alo, ahi, blo, bhi)
        i == m[1]
        j == m[2]
        k == m[3]
    IN IF k = 0 THEN 0
       ELSE k + (IF alo < i /\ blo < j THEN MatchCount(a, b, alo, i, blo, j) ELSE 0)
              + (IF i + k < ahi /\ j + k < bhi
                 THEN MatchCount(a, b, i + k, ahi, j + k, bhi) ELSE 0)

\* _calculate_ratio(matches, length): 2.0 * matches / length, 1.0 for length 0
CalculateRatio(matches, length) ==
    IF length > 0 THEN [num |-> 2 * matches, den |-> length] ELSE [num |-> 1, den |-> 1]

\* ratio()
Ratio(a, b) == CalculateRatio(MatchCount(a, b, 0, Len(a), 0, Len(b)), Len(a) + Len(b))

\* quick_ratio(): the characters of a that b still has a copy of
RECURSIVE AvailCount(_, _)
AvailCount(a, b) ==
    IF a = "" THEN 0
    ELSE LET c == CharAt(a, 1)
             rest == SubSeq(a, 2, Len(a))
         IN IF Contains(c, b)
            THEN LET p == CHOOSE q \in 1..Len(b) : CharAt(b, q) = c
                 IN 1 + AvailCount(rest, SubSeq(b, 1, p - 1) \o SubSeq(b, p + 1, Len(b)))
            ELSE AvailCount(rest, b)

QuickRatio(a, b) == CalculateRatio(AvailCount(a, b), Len(a) + Len(b))

\* real_quick_ratio()
RealQuickRatio(a, b) == CalculateRatio(Min(Len(a), Len(b)), Len(a) + Len(b))

\* r >= cutoff, cutoff = 0.65 = 13/20
AtLeastCutoff(r) == 20 * r.num >= 13 * r.den

RatioLess(r, s) == r.num * s.den < s.num * r.den

\* (score, x) > (score, x) on the tuples get_close_matches collects
TupleGreaterByScore(p, q) == RatioLess(q.score, p.score)

TupleGreater(p, q) ==
    \/ RatioLess(q.score, p.score)
    \/ ~RatioLess(p.score, q.score) /\ StrLess(q.x, p.x)

\* the list result of get_close_matches before nlargest
RECURSIVE CloseTuples(_, _)
CloseTuples(w, possibilities) ==
    IF possibilities = <<>> THEN <<>>
    ELSE LET x == Head(possibilities)
             rest == CloseTuples(w, Tail(possibilities))
         IN IF /\ AtLeastCutoff(RealQuickRatio(x, w))
               /\ AtLeastCutoff(QuickRatio(x, w))
               /\ AtLeastCutoff(Ratio(x, w))
            THEN <<[score |-> Ratio(x, w), x |-> x]>> \o rest
            ELSE rest

\* heapq.nlargest(1, result) is max(result): the first element no later one
\* is greater than
RECURSIVE MaxTuple(_, _)
MaxTuple(best, rest) ==
    IF rest = <<>> THEN best
    ELSE MaxTuple(IF TupleGreater(Head(rest), best) THEN Head(rest) ELSE best, Tail(rest))

LowerAll(qs) == [i \in 1..Len(qs) |-> Lower(qs[i])]

None == [t |-> "none", s |-> ""]
Str(s) == [t |-> "str", s |-> s]

\* find_best_match(user_question, questions)
find_best_match(user_question, qs) ==
    LET result == CloseTuples(Lower(user_question), LowerAll(qs))
    IN IF result = <<>> THEN None ELSE Str(MaxTuple(Head(result), Tail(result)).x)


\* the inputs find_best_match is run on
Words == {"abc", "ab?", "zq"}
Candidates == <<"abcd", "abce", "ABC", "b?", "zzqq">>

Pending == [t |-> "pending", s |-> ""]

MatchIdle == word = "" /\ questions = <<>> /\ match = Pending
ScoreIdle == text = "" /\ score = [done |-> FALSE, v |-> 0]
DetectorIdle == messages = <<>> /\ summary = [done |-> FALSE, v |-> EmptyDict]
ServerIdle ==
    /\ request = NoRequest
    /\ response = NoResponse
    /\ draws = 0
    /\ alarms = EmptyDict
    /\ threads = <<>>
    /\ fired = <<>>

InitMatch ==
    /\ word \in Words
    /\ \E n \in 0..MaxQuestions :
           \E pick \in [1..n -> 1..Len(Candidates)] :
               questions = [i \in 1..n |-> Candidates[pick[i]]]
    /\ match = Pending
    /\ ScoreIdle /\ DetectorIdle /\ ServerIdle

FindBestMatch ==
    /\ match = Pending
    /\ match' = find_best_match(word, questions)
    /\ UNCHANGED <<word, questions, scoreVars, detectorVars, serverVars>>

NextMatch == FindBestMatch

SpecMatch == InitMatch /\ [][NextMatch]_vars

\* The candidates that pass the cutoff, and the best ratio among them.
Passing == {i \in 1..Len(questions) : AtLeastCutoff(Ratio(Lower(questions[i]), Lower(word)))}
IsBest(i) ==
    /\ i \in Passing
    /\ \A j \in Passing : ~RatioLess(Ratio(Lower(questions[i]), Lower(word)),
                                     Ratio(Lower(questions[j]), Lower(word)))
Best == {i \in 1..Len(questions) : IsBest(i)}

\* C1 as stated: None when no candidate reaches 0.65, otherwise the first
\* candidate, in input order, among those at the maximum ratio.
C1_FirstInInputOrder ==
    match # Pending =>
        IF Passing = {} THEN match = None
        ELSE match = Str(Lower(questions[CHOOSE i \in Best : \A j \in Best : i <= j]))

\* C1 as amended: None when no candidate reaches 0.65, otherwise the lowercased
\* candidate at the maximum ratio; among several at the maximum, the one whose
\* lowercased text is greatest in str order.
C1_GreatestAmongBest ==
    match # Pending =>
        IF Passing = {} THEN match = None
        ELSE /\ match.t = "str"
             /\ \E i \in Best : match.s = Lower(questions[i])
             /\ \A j \in Best : ~StrLess(match.s, Lower(questions[j]))

\* two different candidates tie at the maximum and the later one is returned
C1_Witness ==
    /\ match.t = "str"
    /\ \E i, j \in Best : i < j /\ Lower(questions[i]) # Lower(questions[j])
                          /\ match.s = Lower(questions[j])

-----------------------------------------------------------------------------
(* The deception scorer.  The character U+2019 of the source's phrases is  *)
(* written ^ here; no text of the model holds either character.            *)

hedge_words ==
    <<"maybe", "perhaps", "possibly", "could be", "might be", "i guess", "i suppose",
      "i think", "i^m not sure", "not really", "kind of", "sort of", "more or less",
      "i^d say", "it seems like", "as far as i remember", "i believe", "to some extent",
      "you could say that", "depends", "that^s hard to say", "let^s just say",
      "i wouldn^t say that exactly", "not exactly", "not technically", "in a way",
      "something like that", "i don^t know", "i mean", "i guess you could say", "just",
      "only", "barely", "hardly", "a little", "not that much", "nothing major",
      "no big deal", "wasn^t serious", "sorta", "kinda", "a tiny bit", "at some point",
      "a while back", "recently", "i think it was yesterday", "not sure when",
      "back then", "sometime", "earlier maybe", "can^t remember exactly", "..",
      "wasn't", "*">>

contradiction_phrases == <<<<"yes", "no">>, <<"never", "sometimes">>, <<"always", "not always">>>>

avoidance_phrases == <<"idk", "don't wanna say", "prefer not to answer">>

\* any(p in text for p in phrases)
AnyIn(phrases, t) == \E i \in 1..Len(phrases) : Contains(phrases[i], t)

\* len(text.split()): the maximal runs of characters that are not whitespace
IsSpace(c) == c = " "
TokenCount(t) ==
    Cardinality({i \in 1..Len(t) :
                    /\ ~IsSpace(CharAt(t, i))
                    /\ (i = 1 \/ IsSpace(CharAt(t, i - 1)))})

HedgeScore(t) == IF AnyIn(hedge_words, t) THEN 4 ELSE 0

ShortScore(t) == IF TokenCount(t) < 4 THEN 2 ELSE 0

ContradictionScore(t) ==
    4 * Cardinality({i \in 1..Len(contradiction_phrases) :
                        /\ Contains(contradiction_phrases[i][1], t)
                        /\ Contains(contradiction_phrases[i][2], t)})

AvoidanceScore(t) == IF AnyIn(avoidance_phrases, t) THEN 6 ELSE 0

QuestionScoreFullPoint(t) == IF Contains("?", t) THEN -2 ELSE 0

QuestionScore(t) == IF Contains("?", t) THEN -1 ELSE 0

\* analyze_message(msg), in half points
analyze_message(msg) ==
    LET t == Lower(msg)
    IN HedgeScore(t) + ShortScore(t) + ContradictionScore(t) + AvoidanceScore(t)
       + QuestionScore(t)

\* the texts analyze_message is run on: up to MaxPieces of these in a row
Pieces == {"Maybe ", "yes ", "no ", "?", "x ", "idk "}

RECURSIVE TextsUpTo(_)
TextsUpTo(n) ==
    IF n = 0 THEN {""}
    ELSE LET shorter == TextsUpTo(n - 1)
         IN shorter \cup {t \o p : t \in shorter, p \in Pieces}

NotScored == [done |-> FALSE, v |-> 0]

InitScore ==
    /\ text \in TextsUpTo(MaxPieces)
    /\ score = NotScored
    /\ MatchIdle /\ DetectorIdle /\ ServerIdle

AnalyzeMessage ==
    /\ ~score.done
    /\ score' = [done |-> TRUE, v |-> analyze_message(text)]
    /\ UNCHANGED <<text, matchVars, detectorVars, serverVars>>

NextScore == AnalyzeMessage

SpecScore == InitScore /\ [][NextScore]_vars

\* none of the five signals is present in the text, case-insensitively
NoSignals(t) ==
    /\ ~AnyIn(hedge_words, Lower(t))
    /\ TokenCount(t) >= 4
    /\ \A i \in 1..Len(contradiction_phrases) :
           ~(Contains(contradiction_phrases[i][1], Lower(t))
             /\ Contains(contradiction_phrases[i][2], Lower(t)))
    /\ ~AnyIn(avoidance_phrases, Lower(t))
    /\ ~Contains("?", t)

\* C10: a score below 0 only for a text holding "?", never below -0.5 (-1 half
\* point), and exactly 0 for a text with none of the five signals.
C10_ScoreFloor ==
    score.done =>
        /\ (score.v < 0 => Contains("?", text))
        /\ score.v >= -1
        /\ (NoSignals(text) => score.v = 0)

\* a text of four tokens whose only signal is "?" was scored -0.5
C10_Witness == score.done /\ score.v = -1 /\ TokenCount(text) >= 4

-----------------------------------------------------------------------------
(* lie_detector_analysis.  A dict is a function on its keys; a speaker key *)
(* is the JSON value entry.get("speaker") gave, a record [t, s, n].        *)

RECURSIVE SumSeq(_)
SumSeq(q) == IF q = <<>> THEN 0 ELSE Head(q) + SumSeq(Tail(q))

\* the first loop: scores[speaker].append(analyze_message(message))
RECURSIVE GroupScores(_, _)
GroupScores(entries, scores) ==
    IF entries = <<>> THEN scores
    ELSE LET entry == Head(entries)
             sc == analyze_message(entry.message)
             known == IF entry.speaker \in DOMAIN scores THEN scores
                      ELSE scores @@ (entry.speaker :> <<>>)
         IN GroupScores(Tail(entries),
                        [known EXCEPT ![entry.speaker] = Append(@, sc)])

\* avg > 1.2 and avg > 0.5, for avg = num / den in points
Above12(avg) == 5 * avg.num > 6 * avg.den
AtLeast12(avg) == 5 * avg.num >= 6 * avg.den
Above05(avg) == 2 * avg.num > avg.den

VerdictInclusive(avg) ==
    IF AtLeast12(avg) THEN "Highly Suspicious"
    ELSE IF Above05(avg) THEN "Suspicious"
    ELSE "Likely Truthful"

Verdict(avg) ==
    IF Above12(avg) THEN "Highly Suspicious"
    ELSE IF Above05(avg) THEN "Suspicious"
    ELSE "Likely Truthful"

\* sum(vals) / len(vals), vals in half points
Average(vals) == [num |-> SumSeq(vals), den |-> 2 * Len(vals)]

lie_detector_analysis(entries) ==
    LET scores == GroupScores(entries, EmptyDict)
    IN [speaker \in DOMAIN scores |->
           [average_score |-> Average(scores[speaker]),
            verdict |-> Verdict(Average(scores[speaker]))]]

\* the conversations lie_detector_analysis is run on
Speakers == {[t |-> "str", s |-> "ann", n |-> 0], [t |-> "str", s |-> "bob", n |-> 0]}
Lines == {"maybe a b c", "a b c d", "why?"}

NotAnalyzed == [done |-> FALSE, v |-> EmptyDict]

InitDetector ==
    /\ \E n \in 0..MaxMessages :
           messages \in [1..n -> [speaker : Speakers, message : Lines]]
    /\ summary = NotAnalyzed
    /\ MatchIdle /\ ScoreIdle /\ ServerIdle

LieDetectorAnalysis ==
    /\ ~summary.done
    /\ summary' = [done |-> TRUE, v |-> lie_detector_analysis(messages)]
    /\ UNCHANGED <<messages, matchVars, scoreVars, serverVars>>

NextDetector == LieDetectorAnalysis

SpecDetector == InitDetector /\ [][NextDetector]_vars

\* a speaker's messages, their total in half points, and the exact average
Said(sp) == {i \in 1..Len(messages) : messages[i].speaker = sp}
RECURSIVE TotalOf(_)
TotalOf(is) ==
    IF is = {} THEN 0
    ELSE LET i == CHOOSE j \in is : TRUE
         IN analyze_message(messages[i].message) + TotalOf(is \ {i})
ExactAverage(sp) == [num |-> TotalOf(Said(sp)), den |-> 2 * Cardinality(Said(sp))]

\* C2: exactly the speakers with a message appear; A > 1.2 gives Highly
\* Suspicious, 0.5 < A <= 1.2 Suspicious, A <= 0.5 Likely Truthful.
C2_VerdictThresholds ==
    summary.done =>
        /\ DOMAIN summary.v = {messages[i].speaker : i \in 1..Len(messages)}
        /\ \A sp \in DOMAIN summary.v :
               LET A == ExactAverage(sp)
                   v == summary.v[sp].verdict
               IN /\ Said(sp) # {}
                  /\ 5 * A.num > 6 * A.den => v = "Highly Suspicious"
                  /\ (2 * A.num > A.den /\ 5 * A.num <= 6 * A.den) => v = "Suspicious"
                  /\ 2 * A.num <= A.den => v = "Likely Truthful"

\* a speaker whose average is exactly 1.2 was given Suspicious
C2_Witness ==
    /\ summary.done
    /\ \E sp \in DOMAIN summary.v :
           /\ 5 * ExactAverage(sp).num = 6 * ExactAverage(sp).den
           /\ summary.v[sp].verdict = "Suspicious"

-----------------------------------------------------------------------------
(* JSON values as request.get_json() hands them to a handler, and the      *)
(* Python operations the handlers apply to them.  A value is a record      *)
(* [t, s, n]: its type, its text (str) and its number (int; float, in      *)
(* tenths; list, its length).  "absent" is a key the body does not have.   *)

JNull == [t |-> "null", s |-> "", n |-> 0]
JStr(s) == [t |-> "str", s |-> s, n |-> 0]
JInt(n) == [t |-> "int", s |-> "", n |-> n]
JFloat(tenths) == [t |-> "float", s |-> "", n |-> tenths]
JList(len) == [t |-> "list", s |-> "", n |-> len]

\* data.get(key, default)
GetOr(v, default) == IF v.t = "absent" THEN default ELSE v
\* data.get(key)
Get(v) == GetOr(v, JNull)

\* bool(v)
Truthy(v) ==
    CASE v.t = "str" -> v.s # ""
      [] v.t \in {"int", "float", "list"} -> v.n # 0
      [] OTHER -> FALSE

\* hash(v) does not raise
Hashable(v) == v.t # "list"

Digits == "0123456789"
IsDigit(c) == c # "" /\ Contains(c, Digits)
DigitValue(c) == IndexIn(c, Digits) - 1

\* str(n) for n >= 0
RECURSIVE IntToStr(_)
IntToStr(n) ==
    IF n < 10 THEN CharAt(Digits, n + 1)
    ELSE IntToStr(n \div 10) \o CharAt(Digits, (n % 10) + 1)

\* s.strip()
RECURSIVE Strip(_)
Strip(s) ==
    IF s = "" THEN ""
    ELSE IF IsSpace(CharAt(s, 1)) THEN Strip(SubSeq(s, 2, Len(s)))
    ELSE IF IsSpace(CharAt(s, Len(s))) THEN Strip(SubSeq(s, 1, Len(s) - 1))
    ELSE s

RECURSIVE DigitsValue(_, _)
DigitsValue(s, acc) ==
    IF s = "" THEN acc
    ELSE DigitsValue(SubSeq(s, 2, Len(s)), 10 * acc + DigitValue(CharAt(s, 1)))

Raised == [ok |-> FALSE, n |-> 0]
Returned(n) == [ok |-> TRUE, n |-> n]

\* int(s) for a str: surrounding whitespace, an optional sign, decimal digits
ParseInt(s) ==
    LET body == Strip(s)
        signed == body # "" /\ CharAt(body, 1) \in {"+", "-"}
        digits == IF signed THEN SubSeq(body, 2, Len(body)) ELSE body
    IN IF digits = "" \/ \E i \in 1..Len(digits) : ~IsDigit(CharAt(digits, i))
       THEN Raised
       ELSE IF signed /\ CharAt(body, 1) = "-"
            THEN Returned(0 - DigitsValue(digits, 0))
            ELSE Returned(DigitsValue(digits, 0))

\* int(v): an int as it is, a float truncated towards zero, a str parsed,
\* TypeError for None and for a list
IntOf(v) ==
    CASE v.t = "int" -> Returned(v.n)
      [] v.t = "float" -> Returned(IF v.n >= 0 THEN v.n \div 10 ELSE 0 - ((0 - v.n) \div 10))
      [] v.t = "str" -> ParseInt(v.s)
      [] OTHER -> Raised

UpperOf ==
    [a |-> "A", b |-> "B", c |-> "C", d |-> "D", e |-> "E", f |-> "F", g |-> "G",
     h |-> "H", i |-> "I", j |-> "J", k |-> "K", l |-> "L", m |-> "M", n |-> "N",
     o |-> "O", p |-> "P", q |-> "Q", r |-> "R", s |-> "S", t |-> "T", u |-> "U",
     v |-> "V", w |-> "W", x |-> "X", y |-> "Y", z |-> "Z"]

\* s.capitalize()
Capitalize(s) ==
    IF s = "" THEN ""
    ELSE LET c == CharAt(s, 1)
         IN (IF c \in DOMAIN UpperOf THEN UpperOf[c] ELSE c) \o Lower(SubSeq(s, 2, Len(s)))

\* what the caller of a handler gets: jsonify({'response': ...}) of a str, of
\* None or of the scorer's dict, or the exception that left the handler
Reply(s) == [status |-> "ok", t |-> "str", text |-> s, summary |-> EmptyDict]
ReplyNone == [status |-> "ok", t |-> "none", text |-> "", summary |-> EmptyDict]
ReplyDict(d) == [status |-> "ok", t |-> "dict", text |-> "", summary |-> d]
Escaped == [status |-> "exception", t |-> "none", text |-> "", summary |-> EmptyDict]

-----------------------------------------------------------------------------
(* Rock paper scissors.                                                    *)

choices == <<"rock", "paper", "scissors">>

InvalidChoice == "Invalid choice. Choose rock, paper, or scissors."

RpsResultNoTie(player, comp) ==
    IF \/ player = "rock" /\ comp = "scissors"
       \/ player = "paper" /\ comp = "rock"
       \/ player = "scissors" /\ comp = "paper"
    THEN "win"
    ELSE "lose"

RpsResult(player, comp) ==
    IF player = comp THEN "tie"
    ELSE IF \/ player = "rock" /\ comp = "scissors"
            \/ player = "paper" /\ comp = "rock"
            \/ player = "scissors" /\ comp = "paper"
    THEN "win"
    ELSE "lose"

\* rps_play(player_choice) when random.choice returns comp; drew tells whether
\* random.choice was called at all
rps_play(player_choice, comp) ==
    LET player == Lower(player_choice)
    IN IF \A i \in 1..Len(choices) : choices[i] # player
       THEN [error |-> TRUE, player |-> "", computer |-> "", result |-> "", drew |-> FALSE]
       ELSE [error |-> FALSE, player |-> player, computer |-> comp,
             result |-> RpsResult(player, comp), drew |-> TRUE]

RpsText(player, comp, result) ==
    "Your choice: " \o player \o ". Computer chose: " \o comp \o ". Result: "
    \o Capitalize(result) \o "!"

RpsChoices ==
    {JAbsent, JNull, JInt(5), JStr("rock"), JStr("Paper"), JStr("SCISSORS"),
     JStr("banana"), JStr("rock "), JStr("")}

\* POST /play-rps with this body, when random.choice returns choices[c]
PlayRps(body, choice, c) ==
        /\ body = "null" => choice = JAbsent
        /\ (body = "null" \/ GetOr(choice, JStr("")).t # "str"
            \/ rps_play(GetOr(choice, JStr("")).s, choices[c]).error) => c = 1
        /\ request' = [NoRequest EXCEPT !.ep = "play-rps", !.body = body, !.choice = choice]
        /\ IF body = "null" \/ GetOr(choice, JStr("")).t # "str"
           THEN response' = Escaped /\ draws' = 0
           ELSE LET result == rps_play(GetOr(choice, JStr("")).s, choices[c])
                IN /\ draws' = IF result.drew THEN 1 ELSE 0
                   /\ response' = IF result.error THEN Reply(InvalidChoice)
                                  ELSE Reply(RpsText(result.player, result.computer,
                                                     result.result))
        /\ UNCHANGED <<matchVars, scoreVars, detectorVars, alarmVars>>

-----------------------------------------------------------------------------
(* The topic summarizer.                                                   *)

\* the position of the first sep in s at or after position 1, 0 when there is none
FirstAt(sep, s) ==
    IF Contains(sep, s)
    THEN CHOOSE i \in 1..Len(s) :
             /\ SubSeq(s, i, i + Len(sep) - 1) = sep
             /\ \A j \in 1..(i - 1) : SubSeq(s, j, j + Len(sep) - 1) # sep
    ELSE 0

\* s.split(sep): never an empty list
RECURSIVE Split(_, _)
Split(s, sep) ==
    LET i == FirstAt(sep, s)
    IN IF i = 0 THEN <<s>>
       ELSE <<SubSeq(s, 1, i - 1)>> \o Split(SubSeq(s, i + Len(sep), Len(s)), sep)

\* sep.join(parts)
RECURSIVE Join(_, _)
Join(sep, parts) ==
    IF parts = <<>> THEN ""
    ELSE IF Len(parts) = 1 THEN parts[1]
    ELSE parts[1] \o sep \o Join(sep, Tail(parts))

\* [p for p in paragraphs if p.strip()]
RECURSIVE NonEmpty(_)
NonEmpty(paragraphs) ==
    IF paragraphs = <<>> THEN <<>>
    ELSE IF Strip(Head(paragraphs)) # "" THEN <<Head(paragraphs)>> \o NonEmpty(Tail(paragraphs))
    ELSE NonEmpty(Tail(paragraphs))

NotFound == "Sorry, I couldn't find that topic."
NoSummary == "No summary available."

\* lines[:3]
FirstThree(lines) == SubSeq(lines, 1, Min(3, Len(lines)))

\* the summary of a fetched page, lines 119-124
Summarize(paragraphs) ==
    LET joined == Join(" ", NonEmpty(paragraphs))
        lines == Split(joined, ". ")
    IN IF lines # <<>> THEN Join(". ", FirstThree(lines)) \o "." ELSE NoSummary

\* get_wiki_intro(topic) when requests.get answers fetch: "raise" is a
\* transport error, which nothing in the function catches
get_wiki_intro(topic, fetch) ==
    IF fetch.kind = "raise" THEN Escaped
    ELSE IF fetch.code # 200 THEN Reply(NotFound)
    ELSE Reply(Summarize(fetch.paragraphs))

Pages ==
    {<<>>, <<" ">>, <<"A cat. It purrs. It naps. It eats.">>, <<"One. Two", " ", "Three">>,
     <<"Short">>}
Fetches ==
    {NoFetch,
     [kind |-> "raise", code |-> 0, paragraphs |-> <<>>],
     [kind |-> "status", code |-> 404, paragraphs |-> <<>>]}
    \cup {[kind |-> "status", code |-> 200, paragraphs |-> pg] : pg \in Pages}

Topics == {JAbsent, JNull, JStr(""), JInt(0), JInt(7), JStr("cat"), JStr("big cat")}

\* POST /search with this body, when requests.get answers fetch
Search(body, topic, fetch) ==
        LET fetched == body = "object" /\ Truthy(GetOr(topic, JStr(""))) /\ topic.t = "str"
        IN /\ body = "null" => topic = JAbsent
           /\ ~fetched => fetch = NoFetch
           /\ request' = [NoRequest EXCEPT !.ep = "search", !.body = body, !.topic = topic,
                                           !.fetch = fetch]
           /\ response' =
                  IF body = "null" THEN Escaped
                  ELSE IF ~Truthy(GetOr(topic, JStr("")))
                       THEN Reply("Please provide a topic to search.")
                  ELSE IF topic.t # "str" THEN Escaped
                  ELSE get_wiki_intro(topic.s, fetch)
           /\ draws' = 0
           /\ UNCHANGED <<matchVars, scoreVars, detectorVars, alarmVars>>

-----------------------------------------------------------------------------
(* /chat.  knowledge_base.json is read at import and is no part of the     *)
(* repository; two entries stand for it.  The die glyph U+1F3B2 of the     *)
(* dice reply is written #.                                                *)

knowledge_base ==
    [questions |-> <<[question |-> "Who?", answer |-> "A bot."],
                     [question |-> "Why?", answer |-> "Because."]>>]

\* get_answer_for_question(question, knowledge_base)
get_answer_for_question(question, kb) ==
    LET hits == {i \in 1..Len(kb.questions) :
                    Lower(kb.questions[i].question) = Lower(question)}
    IN IF hits = {} THEN None
       ELSE Str(kb.questions[CHOOSE i \in hits : \A j \in hits : i <= j].answer)

ChatMessages ==
    {JAbsent, JNull, JInt(1), JStr(" Play RPS now"), JStr("lie detector"),
     JStr("research dice roll"), JStr("dice roll"), JStr("set alarm"), JStr("who"),
     JStr("zz")}

\* POST /chat with this body, when random.randint returns die
Chat(body, message, die) ==
        LET msg == GetOr(message, JStr(""))
            lowered == Lower(Strip(msg.s))
            rolls == body = "object" /\ msg.t = "str"
                     /\ ~Contains("play rps", lowered)
                     /\ ~Contains("rock paper scissors", lowered)
                     /\ ~Contains("lie detector", lowered)
                     /\ ~Contains("search", lowered)
                     /\ Contains("dice roll", lowered)
            best == find_best_match(Strip(msg.s),
                        [i \in 1..Len(knowledge_base.questions) |->
                            knowledge_base.questions[i].question])
            answer == IF best.t = "str" THEN get_answer_for_question(best.s, knowledge_base)
                      ELSE Str("I don't understand.")
        IN /\ body = "null" => message = JAbsent
           /\ ~rolls => die = 1
           /\ request' = [NoRequest EXCEPT !.ep = "chat", !.body = body, !.message = message]
           /\ draws' = IF rolls THEN 1 ELSE 0
           /\ response' =
                  IF body = "null" \/ msg.t # "str" THEN Escaped
                  ELSE IF Contains("play rps", lowered) \/ Contains("rock paper scissors", lowered)
                       THEN Reply("To play, send POST to /play-rps with your choice (rock, paper, or scissors).")
                  ELSE IF Contains("lie detector", lowered)
                       THEN Reply("Send conversation messages to /lie-detector as JSON to analyze.")
                  ELSE IF Contains("search", lowered)
                       THEN Reply("Send your search topic to /search as JSON to get Wikipedia intro.")
                  ELSE IF Contains("dice roll", lowered)
                       THEN Reply("# You rolled a " \o IntToStr(die) \o ".")
                  ELSE IF Contains("set alarm", lowered)
                       THEN Reply("Send POST to /set-alarm with minutes and message in JSON.")
                  ELSE IF answer.t = "str" THEN Reply(answer.s)
                  ELSE ReplyNone
           /\ UNCHANGED <<matchVars, scoreVars, detectorVars, alarmVars>>

-----------------------------------------------------------------------------
(* /lie-detector.  The value of messages is [t, items]; an item is         *)
(* [t, speaker, message] with t = "obj" for a JSON object.                 *)

Item(speaker, message) == [t |-> "obj", speaker |-> speaker, message |-> message]
Bare(t) == [t |-> t, speaker |-> JAbsent, message |-> JAbsent]
ListOf(items) == [t |-> "list", items |-> items]

MessageLists ==
    {NoItems,
     [t |-> "null", items |-> <<>>],
     [t |-> "str", items |-> <<>>],
     ListOf(<<>>),
     ListOf(<<Item(JStr("ann"), JStr("Maybe")), Item(JStr("bob"), JStr("a b c d")),
              Item(JStr("ann"), JStr("why?"))>>),
     ListOf(<<Item(JAbsent, JStr("idk")), Item(JAbsent, JAbsent)>>),
     ListOf(<<Bare("str")>>),
     ListOf(<<Item(JStr("ann"), JStr("yes")), Bare("null")>>),
     ListOf(<<Item(JStr("ann"), JNull)>>),
     ListOf(<<Item(JStr("ann"), JInt(3))>>),
     ListOf(<<Item(JList(1), JStr("no"))>>)}

\* the loop of lie_detector_analysis raises on this item: entry.get on what is
\* no dict, message.lower() on what is no str, or an unhashable speaker as key
ItemRaises(item) ==
    \/ item.t # "obj"
    \/ GetOr(item.message, JStr("")).t # "str"
    \/ ~Hashable(Get(item.speaker))

\* POST /lie-detector with this body
LieDetector(body, msgs) ==
        LET given == IF msgs.t = "absent" THEN ListOf(<<>>) ELSE msgs
            entries == [i \in 1..Len(given.items) |->
                           [speaker |-> Get(given.items[i].speaker),
                            message |-> GetOr(given.items[i].message, JStr("")).s]]
        IN /\ body = "null" => msgs = NoItems
           /\ request' = [NoRequest EXCEPT !.ep = "lie-detector", !.body = body,
                                           !.messages = msgs]
           /\ response' =
                  IF body = "null" THEN Escaped
                  ELSE IF given.t # "list"
                       THEN Reply("Invalid input. Send a list of messages with speaker and message.")
                  ELSE IF \E i \in 1..Len(given.items) : ItemRaises(given.items[i])
                       THEN Escaped
                  ELSE ReplyDict(lie_detector_analysis(entries))
           /\ draws' = 0
           /\ UNCHANGED <<matchVars, scoreVars, detectorVars, alarmVars>>

-----------------------------------------------------------------------------
(* The alarm.  A thread is [minutes, message, remaining, status]: the      *)
(* minutes it was set for, its message, the minutes of its sleep still to  *)
(* pass, and "sleeping", "done" (it wrote its entry) or "crashed" (the     *)
(* write raised).  str() of a list is written [..].                        *)

\* str(v) for the message of an alarm
TextOf(v) ==
    CASE v.t = "str" -> v.s
      [] v.t = "int" -> IntToStr(v.n)
      [] OTHER -> "[..]"

\* the value alarm_thread writes
AlarmText(minutes, message) ==
    "Alarm: " \o TextOf(message) \o " (set " \o IntToStr(minutes) \o " minutes ago)!"

\* what set_alarm returns
Confirmation(minutes, message) ==
    "Alarm set for " \o IntToStr(minutes) \o " minutes from now with message: '"
    \o TextOf(message) \o "'"

InvalidAlarm == "Invalid input. Provide positive minutes and a message."

\* the try block of alarm() ends in the except branch
AlarmRejectsNegative(body, minutes, message) ==
    \/ body = "null"
    \/ ~IntOf(GetOr(minutes, JInt(0))).ok
    \/ IntOf(GetOr(minutes, JInt(0))).n < 0
    \/ ~Truthy(GetOr(message, JStr("")))

AlarmRejects(body, minutes, message) ==
    \/ body = "null"
    \/ ~IntOf(GetOr(minutes, JInt(0))).ok
    \/ IntOf(GetOr(minutes, JInt(0))).n <= 0
    \/ ~Truthy(GetOr(message, JStr("")))

\* set_alarm(minutes, message): the thread it starts
NewThread(minutes, message) ==
    [minutes |-> minutes, message |-> message, remaining |-> minutes, status |-> "sleeping"]

\* alarms[message] = value
SetDefaultItem(d, key, value) ==
    [k \in DOMAIN d \cup {key} |-> IF k \in DOMAIN d THEN d[k] ELSE value]

OnlyItem(d, key, value) == [k \in {key} |-> value]

SetItem(d, key, value) == [k \in DOMAIN d \cup {key} |-> IF k = key THEN value ELSE d[k]]

\* POST /set-alarm with this body
Alarm(body, minutes, message) ==
        /\ body = "null" => minutes = JAbsent /\ message = JAbsent
        /\ request' = [NoRequest EXCEPT !.ep = "set-alarm", !.body = body,
                                        !.minutes = minutes, !.message = message]
        /\ draws' = 0
        /\ IF AlarmRejects(body, minutes, message)
           THEN /\ response' = Reply(InvalidAlarm)
                /\ UNCHANGED alarmVars
           ELSE /\ Len(threads) < MaxThreads
                /\ threads' = Append(threads, NewThread(IntOf(minutes).n, message))
                /\ response' = Reply(Confirmation(IntOf(minutes).n, message))
                /\ UNCHANGED <<alarms, fired>>
        /\ UNCHANGED <<matchVars, scoreVars, detectorVars>>

\* a minute passes: every sleep still running has one minute less to go
Tick ==
    /\ \E i \in 1..Len(threads) : threads[i].status = "sleeping" /\ threads[i].remaining > 0
    /\ threads' = [i \in 1..Len(threads) |->
                      IF threads[i].status = "sleeping" /\ threads[i].remaining > 0
                      THEN [threads[i] EXCEPT !.remaining = @ - 1]
                      ELSE threads[i]]
    /\ UNCHANGED <<matchVars, scoreVars, detectorVars, request, response, draws, alarms, fired>>

\* alarm_thread after its sleep: the write, which raises TypeError for a
\* message that cannot be a dict key
AlarmFire(i) ==
    /\ i \in 1..Len(threads)
    /\ threads[i].status = "sleeping"
    /\ threads[i].remaining = 0
    /\ IF Hashable(threads[i].message)
       THEN /\ alarms' = SetItem(alarms, threads[i].message,
                                 AlarmText(threads[i].minutes, threads[i].message))
            /\ threads' = [threads EXCEPT ![i].status = "done"]
            /\ fired' = Append(fired, i)
       ELSE /\ threads' = [threads EXCEPT ![i].status = "crashed"]
            /\ UNCHANGED <<alarms, fired>>
    /\ UNCHANGED <<matchVars, scoreVars, detectorVars, request, response, draws>>

-----------------------------------------------------------------------------
(* The server.                                                             *)

InitServer == ServerIdle /\ MatchIdle /\ ScoreIdle /\ DetectorIdle

Bodies == {"object", "null"}

\* the bodies sent to /set-alarm, as <<minutes, message>>: every kind of
\* minutes with a good message, every kind of message with good minutes
AlarmBodies ==
    ({JAbsent, JNull, JInt(0 - 1), JInt(0), JInt(1), JInt(2), JStr("2"), JStr("soon"),
      JFloat(5)} \X {JStr("a")})
    \cup ({JInt(1)} \X {JAbsent, JStr(""), JStr("b"), JList(1)})
    \cup {<<JInt(0), JStr("")>>, <<JAbsent, JAbsent>>}

FewAlarmBodies ==
    {<<JInt(1), JStr("a")>>, <<JInt(0), JStr("a")>>, <<JStr("soon"), JStr("a")>>,
     <<JInt(1), JAbsent>>, <<JAbsent, JAbsent>>}

Next ==
    \/ \E body \in Bodies, message \in ChatMessages, die \in 1..6 : Chat(body, message, die)
    \/ \E body \in Bodies, choice \in RpsChoices, c \in 1..Len(choices) :
           PlayRps(body, choice, c)
    \/ \E body \in Bodies, msgs \in MessageLists : LieDetector(body, msgs)
    \/ \E body \in Bodies, topic \in Topics, fetch \in Fetches : Search(body, topic, fetch)
    \/ \E body \in Bodies, b \in FewAlarmBodies : Alarm(body, b[1], b[2])
    \/ Tick
    \/ \E i \in 1..MaxThreads : AlarmFire(i)

Spec == InitServer /\ [][Next]_vars

\* /play-rps alone, on every casing of two of the choices
RECURSIVE Casings(_)
Casings(w) ==
    IF w = "" THEN {""}
    ELSE LET c == CharAt(w, 1)
         IN {h \o r : h \in {c, IF c \in DOMAIN UpperOf THEN UpperOf[c] ELSE c},
                       r \in Casings(SubSeq(w, 2, Len(w)))}

NextRps ==
    \E body \in Bodies,
       choice \in RpsChoices \cup {JStr(w) : w \in Casings("rock") \cup Casings("paper")},
       c \in 1..Len(choices) :
        PlayRps(body, choice, c)
SpecRps == InitServer /\ [][NextRps]_vars

\* /set-alarm and the threads it starts
NextAlarm ==
    \/ \E body \in Bodies, b \in AlarmBodies : Alarm(body, b[1], b[2])
    \/ Tick
    \/ \E i \in 1..MaxThreads : AlarmFire(i)
SpecAlarm == InitServer /\ [][NextAlarm]_vars

\* the sleeps end and the threads are scheduled while the process runs
FairSpecAlarm ==
    /\ SpecAlarm
    /\ WF_vars(Tick)
    /\ \A i \in 1..MaxThreads : WF_vars(AlarmFire(i))

-----------------------------------------------------------------------------
(* Claims about the handlers.                                              *)

\* C3: whatever the body of a POST request lacks or gets wrong, the handler
\* answers with a normal response; no exception leaves it.
C3_NoExceptionEscapes == request.ep # "none" => response.status = "ok"

\* C4: a page fetch that fails, by its status or by a transport error, is
\* answered with the not-found message.
C4_FetchFailureIsNotFound ==
    (/\ request.ep = "search"
     /\ request.fetch.kind # "none"
     /\ (request.fetch.kind = "raise" \/ request.fetch.code # 200))
    => response = Reply(NotFound)

\* C5: a fetched page with no paragraph text at all is answered with the
\* no-summary message, any other page with its first three ". " segments
\* joined by ". " and a final period.
C5_SummaryOrNoSummary ==
    (request.ep = "search" /\ request.fetch.kind = "status" /\ request.fetch.code = 200)
    => LET kept == {i \in 1..Len(request.fetch.paragraphs) :
                       Strip(request.fetch.paragraphs[i]) # ""}
       IN IF kept = {} THEN response = Reply(NoSummary)
          ELSE response = Reply(Join(". ", FirstThree(Split(Join(" ",
                                     NonEmpty(request.fetch.paragraphs)), ". "))) \o ".")

\* the cyclic rule: rock beats scissors, scissors beats paper, paper beats rock
Beats == {<<"rock", "scissors">>, <<"scissors", "paper">>, <<"paper", "rock">>}
Moves == {"rock", "paper", "scissors"}
Outcome(player, comp) ==
    IF player = comp THEN "tie" ELSE IF <<player, comp>> \in Beats THEN "win" ELSE "lose"

\* C9: a choice that is not rock, paper or scissors once lowercased gets the
\* invalid-choice error and no opponent move is drawn; any other gets one
\* draw and tie, win or lose by the cyclic rule against the move drawn.
C9_RpsOutcome ==
    (request.ep = "play-rps" /\ response.status = "ok") =>
        LET player == Lower(GetOr(request.choice, JStr("")).s)
        IN IF player \notin Moves
           THEN response = Reply(InvalidChoice) /\ draws = 0
           ELSE /\ draws = 1
                /\ \E comp \in Moves :
                       response = Reply(RpsText(player, comp, Outcome(player, comp)))

\* Rock, in capitals, won against scissors
C9_Witness ==
    /\ request.ep = "play-rps"
    /\ request.choice = JStr("ROCK")
    /\ draws = 1
    /\ response = Reply("Your choice: rock. Computer chose: scissors. Result: Win!")

-----------------------------------------------------------------------------
(* Claims about the alarm.                                                 *)

\* the minutes of the request coerce to an integer <= 0 or to none at all, or
\* its message is empty
Unacceptable(req) ==
    \/ req.body = "null"
    \/ ~IntOf(GetOr(req.minutes, JInt(0))).ok
    \/ IntOf(GetOr(req.minutes, JInt(0))).n <= 0
    \/ ~Truthy(GetOr(req.message, JStr("")))

\* C6: such a /set-alarm request is answered with the invalid-input message,
\* starts no thread and leaves the alarm state alone; no thread that exists
\* was started for non-positive minutes or an empty message.
C6_RejectedBeforeStart ==
    /\ [](\A i \in 1..Len(threads) : threads[i].minutes > 0 /\ Truthy(threads[i].message))
    /\ [][(request' # request /\ request'.ep = "set-alarm" /\ Unacceptable(request'))
           => (/\ response' = Reply(InvalidAlarm)
               /\ threads' = threads
               /\ alarms' = alarms)]_vars

\* a request for 0 minutes was rejected while an earlier alarm sleeps on
C6_Witness ==
    /\ request.ep = "set-alarm"
    /\ request.minutes = JInt(0)
    /\ response = Reply(InvalidAlarm)
    /\ Len(threads) = 1

\* thread i has started with a str message
Scheduled(i) == i <= Len(threads) /\ threads[i].message.t = "str"

\* the message of thread i is a key of the alarm state
Entered(i) == i <= Len(threads) /\ threads[i].message \in DOMAIN alarms

\* thread i runs its write in this step
Fires(i) ==
    /\ i <= Len(threads)
    /\ threads[i].status = "sleeping"
    /\ threads'[i].status = "done"

\* C7: two alarms with distinct messages both get their entry in the end;
\* an entry appears or changes only by the write of a thread with that
\* message, after its sleep, and no write removes or changes another key.
C7_BothEntriesEventually ==
    /\ \A i, j \in 1..MaxThreads :
           (Scheduled(i) /\ Scheduled(j) /\ threads[i].message # threads[j].message)
           ~> (Entered(i) /\ Entered(j))
    /\ [][/\ DOMAIN alarms \subseteq DOMAIN alarms'
          /\ \A k \in DOMAIN alarms' :
                 (k \notin DOMAIN alarms \/ alarms'[k] # alarms[k])
                 => \E i \in 1..Len(threads) :
                        /\ Fires(i)
                        /\ threads[i].message = k
                        /\ threads[i].remaining = 0
                        /\ alarms'[k] = AlarmText(threads[i].minutes, k)]_vars

\* both entries are there, each written by its own thread
C7_Witness ==
    /\ Len(threads) = 2
    /\ threads[1].status = "done" /\ threads[2].status = "done"
    /\ threads[1].message # threads[2].message
    /\ alarms[threads[1].message] = AlarmText(threads[1].minutes, threads[1].message)
    /\ alarms[threads[2].message] = AlarmText(threads[2].minutes, threads[2].message)

\* the threads with this message, and the one of them that completed last
ThreadsFor(key) == {i \in 1..Len(threads) : threads[i].message = key}
LastFired(key) ==
    LET at == {p \in 1..Len(fired) : fired[p] \in ThreadsFor(key)}
    IN fired[CHOOSE p \in at : \A q \in at : q <= p]

\* C8: once every thread with a given message has completed, the entry of
\* that message is the one the thread that completed last wrote; starting an
\* alarm returns the confirmation and writes nothing.
C8_LaterCompletionWins ==
    /\ [](\A i \in 1..Len(threads) :
              LET key == threads[i].message
              IN (\A j \in ThreadsFor(key) : threads[j].status = "done")
                 => /\ key \in DOMAIN alarms
                    /\ alarms[key] = AlarmText(threads[LastFired(key)].minutes, key))
    /\ [][Len(threads') > Len(threads)
           => (/\ alarms' = alarms
               /\ response' = Reply(Confirmation(threads'[Len(threads')].minutes,
                                                 threads'[Len(threads')].message)))]_vars

\* two alarms with one message: the one scheduled first completed last and
\* its value is the entry
C8_Witness ==
    /\ Len(threads) = 2
    /\ threads[1].message = threads[2].message
    /\ threads[1].minutes # threads[2].minutes
    /\ fired = <<2, 1>>
    /\ alarms[threads[1].message] = AlarmText(threads[1].minutes, threads[1].message)

=============================================================================
